---- MODULE Spec2Model ----
(***************************************************************************)
(* Chunk stores, ingestion and similarity search of the knowledge-base     *)
(* backend: PostgresVectorStore (pgvector table document_chunks) with the  *)
(* LangChainService that chunks and embeds documents for it, and           *)
(* VectorStore (Qdrant collection with TF-IDF vectors).                    *)
(***************************************************************************)
EXTENDS Integers, Sequences, FiniteSets, TLC

(***************************************************************************)
(* Bounds of the model.                                                    *)
(***************************************************************************)
\* most add_documents calls in one behaviour
MaxCalls == 2
\* most documents in one add_documents batch
MaxDocs == 2
\* largest top_k a search is called with
MaxTopK == 2

\* the value Python's None / SQL NULL
None == "None"

\* tenants (users.user_id)
Users == {"A", "B"}

\* texts a query can hold
QueryTexts == {1, 4}

\* the source_type values callers pass
SourceTypes == {"UPLOAD"}

\* the documents callers hand to add_documents, as {page_content, metadata}:
\* a Notion page carries metadata.page_id, an uploaded file or a PDF chunk
\* carries no page_id.  page_content is given as the segments that
\* RecursiveCharacterTextSplitter.split_documents cuts it into.
Documents ==
    { [ metadata     |-> [page_id |-> "p1", source_id |-> None],
        page_content |-> <<1, 2>> ],
      [ metadata     |-> [page_id |-> None, source_id |-> "s1"],
        page_content |-> <<1>> ],
      [ metadata     |-> [page_id |-> None, source_id |-> "s2"],
        page_content |-> <<2>> ] }

SeqsUpTo(S, n) == UNION { [1..k -> S] : k \in 1..n }

\* a batch: up to MaxDocs documents
Batches == SeqsUpTo(Documents, MaxDocs)

\* the sets of texts on which the embedding call can raise during one call
FailingSets == { {}, {1} }

(***************************************************************************)
(* Embeddings.  The model's vectors are normalised (normalize_embeddings), *)
(* so every real embedding has the same norm UnitNorm; the fallback of     *)
(* _get_embedding_async is the zero vector.                                *)
(***************************************************************************)
UnitNorm == 5

ZeroVector == <<0, 0>>

\* HuggingFaceEmbeddings.embed_query on a text: a fixed unit vector per text
embed_query(t) ==
    CASE t = 1 -> <<5, 0>>
      [] t = 2 -> <<4, 3>>
      [] t = 3 -> <<0, 5>>
      [] t = 4 -> <<-3, 4>>
      [] OTHER -> <<3, 4>>

\* LangChainService._get_embedding_async: the model's vector, or the zero
\* vector when the embedding call raised
get_embedding_async(t, failing) ==
    IF t \in failing THEN ZeroVector ELSE embed_query(t)

Dot(a, b) == a[1] * b[1] + a[2] * b[2]

\* a float that may be NaN
NaN == [nan |-> TRUE, v |-> 0]
Float(x) == [nan |-> FALSE, v |-> x]

\* pgvector's <=> (cosine distance), in hundredths: 1 - cos, NaN when either
\* vector has norm zero
cosine_distance(a, b) ==
    IF Dot(a, a) = 0 \/ Dot(b, b) = 0
    THEN NaN
    ELSE Float(100 - (Dot(a, b) * 100) \div (UnitNorm * UnitNorm))

VARIABLES
    store,             \* the store whose calls the behaviour follows
    document_chunks,   \* the committed rows of table document_chunks, by id
    has_unique,        \* whether the table carries UNIQUE (chunk_id)
    points,            \* the points of the Qdrant collection, in upsert order
    is_fitted,         \* VectorStore.is_fitted
    vocabulary,        \* the vocabulary VectorStore.vectorizer was fitted on
    calls,             \* add_documents calls so far; also the clock (utcnow)
    lastAdd,           \* the last add_documents call and its outcome
    lastSearch,        \* the last search call and its outcome
    sessions,          \* the concurrent add_documents calls, each in the
                       \* transaction of its own database session
    splitting,         \* the last text_splitter.split_documents call: the
                       \* page_content it was given and the chunks it made
    chunking,          \* a VectorStore._split_text call: its text, its
                       \* position in the loop and the chunks so far
    enhancing,         \* a document in VectorStore.add_documents: the
                       \* metadata it came with and the metadata its chunks get
    chats,             \* the POST /chat requests in flight, by connection
    accounts,          \* table users: the usage columns of each user
    utc_day,           \* the date of datetime.utcnow()
    processing_status, \* pdf_upload.processing_status, by task id
    background,        \* the process_pdf_background task of each task id
    workspace,         \* the Notion workspace: the child blocks of each page
    syncing            \* a NotionService and the sync_page call on it

pg_vars == <<store, document_chunks, has_unique, sessions>>
vs_vars == <<points, is_fitted, vocabulary>>
base_vars == <<store, document_chunks, has_unique, sessions, points, is_fitted,
               vocabulary, calls, lastAdd, lastSearch, splitting>>
\* the state of the calls followed apart from the two stores
pdf_vars == <<processing_status, background>>
notion_vars == <<workspace, syncing>>
aux_vars == <<chunking, enhancing, chats, accounts, utc_day, pdf_vars,
              notion_vars>>
vars == <<store, document_chunks, has_unique, points, is_fitted, vocabulary, calls,
          lastAdd, lastSearch, sessions, splitting, chunking, enhancing,
          chats, accounts, utc_day, processing_status, background,
          workspace, syncing>>

(***************************************************************************)
(* LangChainService._get_text_splitter: RecursiveCharacterTextSplitter     *)
(* with length_function=len, is_separator_regex=False and the library's    *)
(* defaults keep_separator=True, strip_whitespace=True.  A text is the     *)
(* sequence of its characters.                                             *)
(***************************************************************************)
\* chunk_size=400 and chunk_overlap=50 in the source; the splitter is run
\* here at sizes that the texts of the model exceed
chunk_size == 4
chunk_overlap == 1

\* longest page_content split
MaxText == 6

\* the characters of the texts: a letter, a full stop, a space, a line break
Chars == {"a", ".", " ", "\n"}
Whitespace == {" ", "\n"}

separators ==
    << <<"\n", "\n">>, <<"\n">>, <<".", " ">>, <<"!", " ">>, <<"?", " ">>,
       <<";", " ">>, <<":", " ">>, <<" ">> >>

\* the separators with the fallback "" left out
separators_without_empty == separators

\* the separators of the source, "" last
separators_with_empty == separators \o << <<>> >>

\* str.strip()
RECURSIVE strip(_)
strip(text) ==
    IF text = <<>> THEN <<>>
    ELSE IF Head(text) \in Whitespace THEN strip(Tail(text))
    ELSE IF text[Len(text)] \in Whitespace
         THEN strip(SubSeq(text, 1, Len(text) - 1))
    ELSE text

\* the separator occurs in the text at position i
occurs_at(text, separator, i) ==
    /\ i + Len(separator) - 1 <= Len(text)
    /\ SubSeq(text, i, i + Len(separator) - 1) = separator

\* re.search(re.escape(separator), text)
re_search(separator, text) ==
    \E i \in 1..Len(text) : occurs_at(text, separator, i)

\* re.split(f"({separator})", text) with every separator put at the start
\* of the piece that follows it; i scans the text, start begins the piece
RECURSIVE re_split(_, _, _, _)
re_split(text, separator, i, start) ==
    IF i > Len(text) THEN <<SubSeq(text, start, Len(text))>>
    ELSE IF occurs_at(text, separator, i)
         THEN <<SubSeq(text, start, i - 1)>>
                \o re_split(text, separator, i + Len(separator), i)
    ELSE re_split(text, separator, i + 1, start)

\* _split_text_with_regex(text, separator, keep_separator=True)
split_text_with_regex(text, separator) ==
    LET splits == IF separator # <<>>
                  THEN re_split(text, separator, 1, 1)
                  ELSE [i \in 1..Len(text) |-> <<text[i]>>]
    IN  SelectSeq(splits, LAMBDA piece : piece # <<>>)

\* "".join(docs)
RECURSIVE join(_)
join(docs) == IF docs = <<>> THEN <<>> ELSE Head(docs) \o join(Tail(docs))

\* _join_docs: the joined pieces stripped, as a list of no or one chunk
join_docs(docs) ==
    IF strip(join(docs)) = <<>> THEN <<>> ELSE <<strip(join(docs))>>

\* the while loop of _merge_splits: pieces leave the front of current_doc
\* until the overlap is kept and the next piece of length len fits
RECURSIVE pop_front(_, _)
pop_front(current_doc, len) ==
    LET total == Len(join(current_doc))
    IN  IF \/ total > chunk_overlap
           \/ (total + len > chunk_size /\ total > 0)
        THEN pop_front(Tail(current_doc), len)
        ELSE current_doc

\* _merge_splits(splits, separator="") from the state current_doc
RECURSIVE merge_from(_, _)
merge_from(splits, current_doc) ==
    IF splits = <<>> THEN join_docs(current_doc)
    ELSE LET d == Head(splits)
         IN  IF Len(join(current_doc)) + Len(d) > chunk_size
                  /\ current_doc # <<>>
             THEN join_docs(current_doc)
                    \o merge_from(Tail(splits),
                                  Append(pop_front(current_doc, Len(d)), d))
             ELSE merge_from(Tail(splits), Append(current_doc, d))

merge_splits(splits) == merge_from(splits, <<>>)

\* the first separator that is "" or occurs in the text, as its index
separator_index(text, seps) ==
    IF \E i \in 1..Len(seps) : seps[i] = <<>> \/ re_search(seps[i], text)
    THEN CHOOSE i \in 1..Len(seps) :
             /\ seps[i] = <<>> \/ re_search(seps[i], text)
             /\ \A j \in 1..(i - 1) :
                   seps[j] # <<>> /\ ~re_search(seps[j], text)
    ELSE 0

\* _split_text(text, separators); split_loop is its loop over the splits
RECURSIVE split_text(_, _)
RECURSIVE split_loop(_, _, _)
split_loop(splits, good_splits, new_separators) ==
    LET merged == IF good_splits # <<>> THEN merge_splits(good_splits)
                  ELSE <<>>
    IN  IF splits = <<>> THEN merged
        ELSE LET s == Head(splits)
             IN  IF Len(s) < chunk_size
                 THEN split_loop(Tail(splits), Append(good_splits, s),
                                 new_separators)
                 ELSE merged
                        \o (IF new_separators = <<>> THEN <<s>>
                            ELSE split_text(s, new_separators))
                        \o split_loop(Tail(splits), <<>>, new_separators)

split_text(text, seps) ==
    LET i == separator_index(text, seps)
        \* separator = separators[-1] unless one is found
        separator == IF i = 0 THEN seps[Len(seps)] ELSE seps[i]
        new_separators == IF i = 0 \/ seps[i] = <<>> THEN <<>>
                          ELSE SubSeq(seps, i + 1, Len(seps))
    IN  split_loop(split_text_with_regex(text, separator), <<>>,
                   new_separators)

\* text_splitter.split_documents([Document(page_content=...)]): the
\* page_content of the chunks
split_documents(page_content) == split_text(page_content, separators_with_empty)

\* no call yet
NoSplit == [page_content |-> <<>>, chunks |-> <<>>, returned |-> FALSE]

(***************************************************************************)
(* LangChainService.process_documents                                      *)
(***************************************************************************)
\* metadata.get('page_id', 'unknown')
page_key(metadata) ==
    IF metadata.page_id = None THEN "unknown" ELSE metadata.page_id

\* the chunk_data of segment chunk_idx (0-based) of one document
chunk_data(doc, chunk_idx, user_id, failing, now) ==
    [ text      |-> doc.page_content[chunk_idx + 1],
      metadata  |-> [ page_id      |-> doc.metadata.page_id,
                      source_id    |-> doc.metadata.source_id,
                      chunk_id     |-> chunk_idx,
                      chunk_index  |-> chunk_idx,
                      user_id      |-> user_id,
                      processed_at |-> now ],
      embedding |-> get_embedding_async(doc.page_content[chunk_idx + 1], failing),
      chunk_id  |-> <<page_key(doc.metadata), chunk_idx>> ]

doc_chunks(doc, user_id, failing, now) ==
    [ k \in 1..Len(doc.page_content) |->
        chunk_data(doc, k - 1, user_id, failing, now) ]

\* process_documents that drops the chunks whose embedding call raised
RECURSIVE process_documents_dropping(_, _, _, _)
process_documents_dropping(documents, user_id, failing, now) ==
    IF documents = <<>> THEN <<>>
    ELSE SelectSeq(doc_chunks(Head(documents), user_id, failing, now),
                   LAMBDA c : c.text \notin failing)
           \o process_documents_dropping(Tail(documents), user_id, failing, now)

RECURSIVE process_documents(_, _, _, _)
process_documents(documents, user_id, failing, now) ==
    IF documents = <<>> THEN <<>>
    ELSE doc_chunks(Head(documents), user_id, failing, now)
           \o process_documents(Tail(documents), user_id, failing, now)

\* every chunk the documents of the model are cut into
AllChunks ==
    UNION { { chunk_data(d, k - 1, None, {}, 0) : k \in 1..Len(d.page_content) } :
            d \in Documents }

(***************************************************************************)
(* PostgresVectorStore.add_documents                                       *)
(***************************************************************************)
\* the :chunk_id parameter:
\* f"{chunk['metadata'].get('page_id', 'unknown')}_{chunk.get('chunk_id', i)}"
row_chunk_id(chunk) == <<page_key(chunk.metadata)>> \o chunk.chunk_id

\* The table is followed up to the size it reaches under UNIQUE (chunk_id):
\* one row for each chunk_id the documents of the model produce.
MaxRows == Cardinality({ row_chunk_id(c) : c \in AllChunks })

\* The Qdrant collection is followed up to as many points.
MaxPoints == MaxRows

\* the VALUES (...) of the INSERT for one chunk
new_row(chunk, source_type, user_id, now) ==
    [ chunk_id          |-> row_chunk_id(chunk),
      user_id           |-> user_id,
      text              |-> chunk.text,
      document_metadata |-> chunk.metadata,
      source_type       |-> source_type,
      source_id         |-> IF chunk.metadata.page_id # None
                            THEN chunk.metadata.page_id
                            ELSE chunk.metadata.source_id,
      embedding         |-> chunk.embedding,
      embedding_vector  |-> chunk.embedding,
      chunk_index       |-> chunk.metadata.chunk_index,
      created_at        |-> now,
      updated_at        |-> now ]

\* do_update with embedding_vector left out of the SET list
do_update_stale_vector(old, excluded) ==
    [ excluded EXCEPT !.created_at = old.created_at,
                      !.embedding_vector = old.embedding_vector ]

\* do_update that has written only the text column
do_update_text_only(old, excluded) == [old EXCEPT !.text = excluded.text]

\* ON CONFLICT (chunk_id) DO UPDATE SET ...: every column of the SET list
\* takes the EXCLUDED value, the others keep the row's value
do_update(old, excluded) ==
    [ excluded EXCEPT !.created_at = old.created_at ]

conflict_ids(table, row) ==
    { i \in 1..Len(table) : table[i].chunk_id = row.chunk_id }

\* INSERT ... ON CONFLICT (chunk_id) DO UPDATE ... RETURNING id
\* the pair <<table afterwards, returned id>>
upsert(table, row) ==
    IF conflict_ids(table, row) = {}
    THEN <<Append(table, row), Len(table) + 1>>
    ELSE LET i == CHOOSE j \in conflict_ids(table, row) : TRUE
         IN  <<[table EXCEPT ![i] = do_update(table[i], row)], i>>

\* the fallback INSERT without ON CONFLICT
simple_insert(table, row) == <<Append(table, row), Len(table) + 1>>

\* one iteration of the insertion loop
insert_chunk(table, row, unique) ==
    IF unique THEN upsert(table, row) ELSE simple_insert(table, row)

\* the insertion loop over the processed chunks, inside the session's
\* transaction: [table, inserted_chunks]
RECURSIVE insert_all(_, _, _, _, _, _)
insert_all(tx, chunks, source_type, user_id, now, unique) ==
    IF chunks = <<>> THEN [table |-> tx, inserted_chunks |-> <<>>]
    ELSE LET row  == new_row(Head(chunks), source_type, user_id, now)
             one  == insert_chunk(tx, row, unique)
             rest == insert_all(one[1], Tail(chunks), source_type, user_id,
                                now, unique)
         IN  [ table |-> rest.table,
               inserted_chunks |->
                   <<[id |-> one[2], chunk_id |-> row.chunk_id]>>
                       \o rest.inserted_chunks ]

NoAdd == [status |-> "none"]

\* the requests that may run add_documents at the same time
Writers == {"w1", "w2"}

\* a request that has not called add_documents
NoSession ==
    [ pc |-> "idle", source_type |-> None, user_id |-> None, now |-> 0,
      chunks |-> <<>>, next |-> 1, writes |-> <<>>, commit_no |-> 0 ]

NoSessions == [w \in Writers |-> NoSession]
NoSearch == [status |-> "none"]

\* add_documents(documents, source_type, user_id); failing: the texts whose
\* embedding call raises; insert_raises: the INSERT of some chunk raises
add_documents(documents, source_type, user_id, failing, insert_raises) ==
    LET now    == calls + 1
        chunks == process_documents(documents, user_id, failing, now)
        done   == insert_all(document_chunks, chunks, source_type, user_id,
                             now, has_unique)
        call   == [ store |-> "postgres", documents |-> documents,
                    source_type |-> source_type, user_id |-> user_id,
                    chunks |-> chunks ]
    IN  /\ Len(done.table) <= MaxRows
        /\ calls' = now
        /\ UNCHANGED <<aux_vars, splitting, store, has_unique, sessions, vs_vars, lastSearch>>
        /\ IF insert_raises
           THEN \* the exception leaves the handler before db.commit()
                /\ document_chunks' = document_chunks
                /\ lastAdd' = [ status |-> "raised", call |-> call,
                                result |-> <<>> ]
           ELSE /\ document_chunks' = done.table
                /\ lastAdd' = [ status |-> "returned", call |-> call,
                                result |-> done.inserted_chunks ]

\* no call is under way
Idle == lastAdd.status = "none" /\ lastSearch.status = "none"

AddDocuments ==
    /\ store = "postgres" /\ Idle /\ calls < MaxCalls
    /\ \E documents \in Batches, source_type \in SourceTypes, user_id \in Users,
          failing \in FailingSets, insert_raises \in BOOLEAN :
         add_documents(documents, source_type, user_id, failing, insert_raises)

(***************************************************************************)
(* PostgresVectorStore.search                                              *)
(***************************************************************************)
\* LangChainService.get_query_embedding
get_query_embedding(query, embed_fails) ==
    get_embedding_async(query, IF embed_fails THEN {query} ELSE {})

\* candidates with the user_id condition left out of the WHERE clause
candidates_any_user(table, filter) ==
    { i \in 1..Len(table) : table[i].embedding_vector # None }

\* candidates with embedding_vector IS NOT NULL left out of the WHERE clause
candidates_with_null(table, filter) ==
    { i \in 1..Len(table) : filter # None => table[i].user_id = filter }

\* WHERE [user_id = :user_id AND] embedding_vector IS NOT NULL
candidates(table, filter) ==
    { i \in 1..Len(table) :
        /\ table[i].embedding_vector # None
        /\ filter # None => table[i].user_id = filter }

\* (embedding_vector <=> q) as distance; NULL for a NULL vector, which ORDER BY
\* places last as it does NaN
distance(table, i, query_embedding) ==
    IF table[i].embedding_vector = None THEN NaN
    ELSE cosine_distance(table[i].embedding_vector, query_embedding)

\* ORDER BY of float8: NaN sorts after every number
DistLe(d1, d2) == d2.nan \/ (~d1.nan /\ d1.v <= d2.v)

IsInjective(f) == \A a, b \in DOMAIN f : f[a] = f[b] => a = b

Min(a, b) == IF a <= b THEN a ELSE b

\* the row sequences SELECT ... ORDER BY distance LIMIT :limit can return:
\* rows at equal distance come in either order
select_ordered(table, filter, query_embedding, limit) ==
    LET cand == candidates(table, filter)
        n    == Min(limit, Cardinality(cand))
    IN  { out \in [1..n -> cand] :
            /\ IsInjective(out)
            /\ \A a, b \in 1..n : a < b =>
                  DistLe(distance(table, out[a], query_embedding),
                         distance(table, out[b], query_embedding))
            /\ \A a \in 1..n : \A c \in cand \ { out[b] : b \in 1..n } :
                  DistLe(distance(table, out[a], query_embedding),
                         distance(table, c, query_embedding)) }

\* relevance_threshold = 0.3, in hundredths
relevance_threshold == 30

\* similarity_score = 1 - row.distance
similarity_score(d) == IF d.nan THEN NaN ELSE Float(100 - d.v)

\* Python's x < y on floats: False when either is NaN
FloatLt(x, y) == ~x.nan /\ ~y.nan /\ x.v < y.v

\* all_results: every fetched row with its score
all_results(table, out, query_embedding) ==
    [ k \in 1..Len(out) |->
        [ id    |-> out[k],
          score |-> similarity_score(distance(table, out[k], query_embedding)) ] ]

\* the loop's results: rows not filtered out as low-relevance
RECURSIVE relevant(_)
relevant(all) ==
    IF all = <<>> THEN <<>>
    ELSE IF FloatLt(Head(all).score, Float(relevance_threshold))
         THEN relevant(Tail(all))
         ELSE <<Head(all)>> \o relevant(Tail(all))

\* max(all_results, key=lambda x: x[1]): the first item no later item beats
RECURSIVE py_max(_)
py_max(all) ==
    IF Len(all) = 1 THEN Head(all)
    ELSE LET m == py_max(SubSeq(all, 1, Len(all) - 1))
         IN  IF FloatLt(m.score, all[Len(all)].score)
             THEN all[Len(all)] ELSE m

\* format_results without the best-result fallback
format_results_no_fallback(all) == relevant(all)

\* the list search returns from the fetched rows
format_results(all) ==
    IF relevant(all) = <<>> /\ all # <<>>
    THEN <<py_max(all)>>
    ELSE relevant(all)

\* search(query, top_k, filter); embed_fails: the embedding call raises.
\* The call returns format_results of the fetched rows.
search(query, top_k, filter, embed_fails) ==
    LET query_embedding == get_query_embedding(query, embed_fails)
    IN  /\ UNCHANGED <<aux_vars, splitting, pg_vars, vs_vars, calls, lastAdd>>
        /\ \E out \in select_ordered(document_chunks, filter,
                                      query_embedding, top_k) :
             lastSearch' =
                 [ status |-> "returned", store |-> "postgres",
                   error |-> FALSE, filter |-> filter, top_k |-> top_k,
                   row_count |-> Len(out),
                   query_embedding |-> query_embedding,
                   results |-> format_results(
                       all_results(document_chunks, out, query_embedding)) ]

\* search(query, top_k, filter) when a statement of the session raises:
\* except Exception: return [] -- whatever the query and top_k were
search_error(filter) ==
    /\ UNCHANGED <<aux_vars, splitting, pg_vars, vs_vars, calls, lastAdd>>
    /\ lastSearch' = [ status |-> "returned", store |-> "postgres",
                       error |-> TRUE, filter |-> filter, results |-> <<>> ]

Search ==
    /\ store = "postgres" /\ Idle
    /\ \E query \in QueryTexts, top_k \in 1..MaxTopK,
          filter \in Users \cup {None}, embed_fails \in BOOLEAN :
         search(query, top_k, filter, embed_fails)

SearchError ==
    /\ store = "postgres" /\ Idle
    /\ \E filter \in Users \cup {None} : search_error(filter)

(***************************************************************************)
(* VectorStore: TF-IDF vectors                                             *)
(***************************************************************************)
\* the terms TfidfVectorizer can extract from the texts of the model
Features == {"x", "y", "z"}

\* the terms of a text
Terms(t) ==
    CASE t = 1 -> {"x"}
      [] t = 2 -> {"x", "y"}
      [] t = 4 -> {"z"}
      [] OTHER -> {"y"}

\* vectorizer.transform of one text: a component for each term of the fitted
\* vocabulary the text holds (weights are taken as 1)
tfidf(t, vocab) ==
    [f \in Features |-> IF f \in Terms(t) \cap vocab THEN 1 ELSE 0]

\* the draws of np.random.rand(384) * 0.01: every component positive
RandomVectors ==
    { [f \in Features |-> IF f = "x" THEN 2 ELSE 1],
      [f \in Features |-> IF f = "z" THEN 2 ELSE 1] }

\* the vectors one text can get: its normalised TF-IDF vector, or a random
\* vector when the TF-IDF vector is all zeros
padded_vectors(t, vocab) ==
    IF Terms(t) \cap vocab = {} THEN RandomVectors ELSE {tfidf(t, vocab)}

\* the vocabulary in force for a call on texts: fitted on the first batch
fitted_vocabulary(texts) ==
    IF is_fitted THEN vocabulary
    ELSE UNION { Terms(texts[k]) : k \in 1..Len(texts) }

RECURSIVE transform(_, _)
transform(texts, vocab) ==
    IF texts = <<>> THEN { <<>> }
    ELSE { <<v>> \o rest : v \in padded_vectors(Head(texts), vocab),
                           rest \in transform(Tail(texts), vocab) }

\* VectorStore._get_embeddings: the vector lists the call can return; the
\* call leaves is_fitted set and the vocabulary at fitted_vocabulary(texts)
get_embeddings(texts) == transform(texts, fitted_vocabulary(texts))

DotF(a, b) == a["x"] * b["x"] + a["y"] * b["y"] + a["z"] * b["z"]

\* Distance.COSINE: the score of two vectors, kept as the fraction num/den of
\* its square (no component is negative, so squares order as the scores do)
cosine(a, b) == [num |-> DotF(a, b) * DotF(a, b), den |-> DotF(a, a) * DotF(b, b)]

ScoreGe(s1, s2) == s1.num * s2.den >= s2.num * s1.den

(***************************************************************************)
(* VectorStore.add_documents                                               *)
(***************************************************************************)
\* the chunk dicts of one document: _split_text segment i of the text with
\* the document's metadata, user_id added
vs_doc_chunks(doc, user_id) ==
    [ k \in 1..Len(doc.page_content) |->
        [ text     |-> doc.page_content[k],
          metadata |-> [ page_id   |-> doc.metadata.page_id,
                         source_id |-> doc.metadata.source_id,
                         user_id   |-> user_id ],
          chunk_id |-> k - 1 ] ]

RECURSIVE vs_chunks(_, _)
vs_chunks(documents, user_id) ==
    IF documents = <<>> THEN <<>>
    ELSE vs_doc_chunks(Head(documents), user_id)
           \o vs_chunks(Tail(documents), user_id)

\* str(uuid.uuid4()) for the k-th point of a call: an id no point carries yet
uuid4(k) == Len(points) + k

\* PointStruct(id, vector, payload) of every chunk
point_structs(chunks, embeddings, source_type, user_id) ==
    [ k \in 1..Len(chunks) |->
        [ id      |-> uuid4(k),
          vector  |-> embeddings[k],
          payload |-> [ text        |-> chunks[k].text,
                        metadata    |-> chunks[k].metadata,
                        source_type |-> source_type,
                        chunk_id    |-> chunks[k].chunk_id,
                        user_id     |-> user_id ] ] ]

\* client.upsert: a point replaces the stored point of the same id, or is new
RECURSIVE client_upsert(_, _)
client_upsert(collection, pts) ==
    IF pts = <<>> THEN collection
    ELSE LET same == { i \in 1..Len(collection) :
                         collection[i].id = Head(pts).id }
         IN  client_upsert(
                 IF same = {} THEN Append(collection, Head(pts))
                 ELSE [ i \in 1..Len(collection) |->
                          IF i \in same THEN Head(pts) ELSE collection[i] ],
                 Tail(pts))

Texts(chunks) == [k \in 1..Len(chunks) |-> chunks[k].text]

\* add_documents(documents, source_type, user_id); upsert_fails: client.upsert
\* raises
vs_add_documents(documents, source_type, user_id, upsert_fails) ==
    LET chunks == vs_chunks(documents, user_id)
        texts  == Texts(chunks)
        call   == [ store |-> "qdrant", documents |-> documents,
                    source_type |-> source_type, user_id |-> user_id,
                    chunks |-> chunks ]
    IN  /\ Len(points) + Len(chunks) <= MaxPoints
        /\ calls' = calls + 1
        /\ is_fitted' = TRUE
        /\ vocabulary' = fitted_vocabulary(texts)
        /\ UNCHANGED <<aux_vars, splitting, pg_vars, lastSearch>>
        /\ \E embeddings \in get_embeddings(texts) :
             IF upsert_fails
             THEN /\ points' = points
                  /\ lastAdd' = [ status |-> "raised", call |-> call,
                                  result |-> <<>> ]
             ELSE /\ points' = client_upsert(points,
                                   point_structs(chunks, embeddings,
                                                 source_type, user_id))
                  /\ lastAdd' = [ status |-> "returned", call |-> call,
                                  result |-> point_structs(
                                      chunks, embeddings, source_type,
                                      user_id) ]

VsAddDocuments ==
    /\ store = "qdrant" /\ Idle /\ calls < MaxCalls
    /\ \E documents \in Batches, source_type \in SourceTypes, user_id \in Users,
          upsert_fails \in BOOLEAN :
         vs_add_documents(documents, source_type, user_id, upsert_fails)

(***************************************************************************)
(* VectorStore.search                                                      *)
(***************************************************************************)
\* the points query_filter admits: must user_id match value
matching(collection, query_filter) ==
    { i \in 1..Len(collection) :
        query_filter # None => collection[i].payload.user_id = query_filter }

\* client.search: the limit best-scoring matching points, best first; points
\* of equal score come in either order
client_search(collection, query_vector, limit, query_filter) ==
    LET m == matching(collection, query_filter)
        n == Min(limit, Cardinality(m))
        sc(i) == cosine(collection[i].vector, query_vector)
    IN  { out \in [1..n -> m] :
            /\ IsInjective(out)
            /\ \A a, b \in 1..n : a < b => ScoreGe(sc(out[a]), sc(out[b]))
            /\ \A a \in 1..n : \A c \in m \ { out[b] : b \in 1..n } :
                  ScoreGe(sc(out[a]), sc(c)) }

\* the Python filter of the retry path
RECURSIVE filtered_results(_, _, _)
filtered_results(collection, search_results, filter) ==
    IF search_results = <<>> THEN <<>>
    ELSE IF filter = None
            \/ collection[Head(search_results)].payload.user_id = filter
         THEN <<Head(search_results)>>
                  \o filtered_results(collection, Tail(search_results), filter)
         ELSE filtered_results(collection, Tail(search_results), filter)

\* the result dicts, with the position of the point they come from
vs_results(collection, search_results, query_vector) ==
    [ k \in 1..Len(search_results) |->
        [ id          |-> search_results[k],
          text        |-> collection[search_results[k]].payload.text,
          metadata    |-> collection[search_results[k]].payload.metadata,
          source_type |-> collection[search_results[k]].payload.source_type,
          score       |-> cosine(collection[search_results[k]].vector,
                                 query_vector) ] ]

\* search(query, top_k, filter); first_fails: the search with the filter
\* raises; second_fails: the search without the filter raises as well.
\* The outcomes the call can have on a collection, as records of the call.
vs_search_outcomes(collection, query, top_k, filter, first_fails, second_fails) ==
    UNION {
        LET query_embedding == embeddings[1]
            returned(path, search_results) ==
                [ status |-> "returned", store |-> "qdrant",
                  error |-> FALSE, path |-> path, filter |-> filter,
                  top_k |-> top_k,
                  results |-> vs_results(collection, search_results,
                                         query_embedding) ]
        IN  IF ~first_fails
            THEN { returned("filter", out) :
                     out \in client_search(collection, query_embedding,
                                           top_k, filter) }
            ELSE IF ~second_fails
            THEN { returned("retry",
                            filtered_results(collection, out, filter)) :
                     out \in client_search(collection, query_embedding,
                                           top_k, None) }
            ELSE \* except Exception: return []
                 { [ status |-> "returned", store |-> "qdrant",
                     error |-> TRUE, filter |-> filter,
                     results |-> <<>> ] }
        : embeddings \in get_embeddings(<<query>>) }

vs_search(query, top_k, filter, first_fails, second_fails) ==
    /\ is_fitted' = TRUE
    /\ vocabulary' = fitted_vocabulary(<<query>>)
    /\ UNCHANGED <<aux_vars, splitting, pg_vars, points, calls, lastAdd>>
    /\ lastSearch' \in vs_search_outcomes(points, query, top_k, filter,
                                          first_fails, second_fails)

VsSearch ==
    /\ store = "qdrant" /\ Idle
    /\ \E query \in QueryTexts, top_k \in 1..MaxTopK,
          filter \in Users \cup {None},
          first_fails \in BOOLEAN, second_fails \in BOOLEAN :
         vs_search(query, top_k, filter, first_fails, second_fails)

\* the caller has taken the outcome of add_documents
AddDone ==
    /\ lastAdd.status # "none"
    /\ lastAdd' = NoAdd
    /\ UNCHANGED <<aux_vars, splitting, pg_vars, vs_vars, calls, lastSearch>>

\* the caller has taken the search results
SearchDone ==
    /\ lastSearch.status = "returned"
    /\ lastSearch' = NoSearch
    /\ UNCHANGED <<aux_vars, splitting, pg_vars, vs_vars, calls, lastAdd>>

\* The two stores share no state: a behaviour follows the calls to one of
\* them, from an empty table (with or without its UNIQUE constraint) or an
\* empty collection.
\* no VectorStore._split_text call
NoChunking ==
    [ pc |-> "none", text |-> <<>>, start |-> 0, slices |-> <<>>,
      chunks |-> <<>> ]

\* no document in VectorStore.add_documents
NoEnhancing ==
    [ pc |-> "none", source_type |-> None, user_id |-> None,
      given |-> None, metadata |-> None ]

\* the connections a chat request can arrive on
Connections == {"c1", "c2"}

\* no request on the connection
NoChat ==
    [ pc |-> "idle", user |-> None, search_filter |-> None,
      relevant_docs |-> <<>>, search_error |-> FALSE, status_code |-> 0 ]

NoChats == [c \in Connections |-> NoChat]

\* a user row as created: daily_query_count 0, last_query_reset now
NewAccounts ==
    [ u \in Users |->
        [ daily_query_count |-> 0, total_queries |-> 0,
          last_query_reset |-> 0 ] ]

\* the task ids upload_pdf draws (uuid4)
Tasks == {"t1", "t2", "t3"}

\* no upload has drawn the task id
NoTask == [pc |-> "none", pdf |-> None]

NoTasks == [t \in Tasks |-> NoTask]

\* processing_status = {}
NoStatus == [t \in {} |-> None]

\* "result": None
NoResult == [kind |-> "none", success |-> FALSE, error |-> None]

\* the pages of the Notion workspace, by id
Pages == {"p1", "p2"}

\* a NotionService as constructed: synced_pages = set(), no call yet
NoSync ==
    [ pc |-> "idle", page_id |-> None, synced_pages |-> {}, stack |-> <<>>,
      processed |-> <<>>, documents |-> <<>> ]

\* a workspace whose pages have no child blocks
EmptyWorkspace == [p \in Pages |-> <<>>]

\* no PDF task and no Notion sync
LateIdle ==
    /\ processing_status = NoStatus
    /\ background = NoTasks
    /\ workspace = EmptyWorkspace
    /\ syncing = NoSync

\* none of the calls outside the two stores is under way
AuxIdle ==
    /\ chunking = NoChunking
    /\ enhancing = NoEnhancing
    /\ chats = NoChats
    /\ accounts = NewAccounts
    /\ utc_day = 0
    /\ LateIdle

Init ==
    /\ store \in {"postgres", "qdrant"}
    /\ document_chunks = <<>>
    /\ has_unique \in (IF store = "postgres" THEN BOOLEAN ELSE {TRUE})
    /\ points = <<>>
    /\ is_fitted = FALSE
    /\ vocabulary = {}
    /\ calls = 0
    /\ lastAdd = NoAdd
    /\ lastSearch = NoSearch
    /\ sessions = NoSessions
    /\ splitting = NoSplit
    /\ AuxIdle

Next ==
    \/ AddDocuments
    \/ Search
    \/ SearchError
    \/ VsAddDocuments
    \/ VsSearch
    \/ AddDone
    \/ SearchDone

Spec == Init /\ [][Next]_vars

(***************************************************************************)
(* Tables with rows written before the column embedding_vector existed     *)
(* (fix_vector_column.py adds the column, NULL in every existing row, and  *)
(* then fills it from the embedding column).                               *)
(***************************************************************************)
\* most rows of such a table
MaxLegacy == 2

\* a row as add_documents writes it, and the same row before the column was
\* filled
LegacyRows ==
    { [ new_row(c, "UPLOAD", u, 0) EXCEPT
          !.embedding_vector = IF filled THEN c.embedding ELSE None ] :
        c \in AllChunks, u \in Users, filled \in BOOLEAN }

LegacyTables ==
    { t \in SeqsUpTo(LegacyRows, MaxLegacy) :
        \A i, j \in 1..Len(t) : t[i].chunk_id = t[j].chunk_id => i = j }

\* UPDATE document_chunks SET embedding_vector = embedding::vector
\* WHERE embedding_vector IS NULL AND embedding IS NOT NULL
PopulateVectorColumn ==
    /\ Idle
    /\ \E i \in 1..Len(document_chunks) :
          document_chunks[i].embedding_vector = None
    /\ document_chunks' =
          [ i \in 1..Len(document_chunks) |->
              IF document_chunks[i].embedding_vector = None
              THEN [ document_chunks[i] EXCEPT
                       !.embedding_vector = document_chunks[i].embedding ]
              ELSE document_chunks[i] ]
    /\ UNCHANGED <<aux_vars, splitting, store, has_unique, sessions, vs_vars, calls, lastAdd, lastSearch>>

InitLegacy ==
    /\ store = "postgres"
    /\ document_chunks \in LegacyTables
    /\ has_unique = TRUE
    /\ points = <<>>
    /\ is_fitted = FALSE
    /\ vocabulary = {}
    /\ calls = 0
    /\ lastAdd = NoAdd
    /\ lastSearch = NoSearch
    /\ sessions = NoSessions
    /\ splitting = NoSplit
    /\ AuxIdle

NextLegacy == Search \/ SearchDone \/ PopulateVectorColumn

SpecLegacy == InitLegacy /\ [][NextLegacy]_vars

(***************************************************************************)
(* add_documents called by several requests at once.  Each call has its    *)
(* own session (db = next(get_db())): its statements run in one            *)
(* transaction, which db.commit() makes visible to the others and          *)
(* db.close() without a commit discards.  INSERT ... ON CONFLICT           *)
(* (chunk_id) waits while another transaction holds an uncommitted row of  *)
(* the same chunk_id, and then acts on the committed row.                  *)
(***************************************************************************)
\* the table with the rows a transaction wrote put in place
RECURSIVE commit_rows(_, _)
commit_rows(table, writes) ==
    IF writes = <<>> THEN table
    ELSE LET row == Head(writes)
             hit == conflict_ids(table, row)
         IN  commit_rows(IF hit = {} THEN Append(table, row)
                         ELSE [table EXCEPT ![CHOOSE j \in hit : TRUE] = row],
                         Tail(writes))

\* row_locked without the wait on the other transactions
row_never_locked(w, chunk_id) == FALSE

\* another open transaction has written a row of this chunk_id
row_locked(w, chunk_id) ==
    \E v \in Writers \ {w} :
        /\ sessions[v].pc = "running"
        /\ \E k \in 1..Len(sessions[v].writes) :
              sessions[v].writes[k].chunk_id = chunk_id

\* a request enters add_documents: session opened, documents processed
BeginAdd ==
    \E w \in Writers, doc \in Documents, source_type \in SourceTypes,
       user_id \in Users, failing \in FailingSets :
        /\ sessions[w].pc = "idle"
        /\ calls' = calls + 1
        /\ sessions' =
              [ sessions EXCEPT ![w] =
                  [ pc |-> "running", source_type |-> source_type,
                    user_id |-> user_id, now |-> calls + 1,
                    chunks |-> process_documents(<<doc>>, user_id, failing,
                                                 calls + 1),
                    next |-> 1, writes |-> <<>>, commit_no |-> 0 ] ]
        /\ UNCHANGED <<aux_vars, splitting, store, document_chunks, has_unique, vs_vars, lastAdd,
                       lastSearch>>

\* one iteration of the insertion loop: db.execute(upsert_sql, ...)
ExecuteUpsert ==
    \E w \in Writers :
        LET me   == sessions[w]
            row  == new_row(me.chunks[me.next], me.source_type, me.user_id,
                            me.now)
            one  == upsert(commit_rows(document_chunks, me.writes), row)
        IN  /\ me.pc = "running"
            /\ me.next <= Len(me.chunks)
            /\ ~row_locked(w, row.chunk_id)
            /\ sessions' =
                  [ sessions EXCEPT
                      ![w].writes = commit_rows(me.writes, <<one[1][one[2]]>>),
                      ![w].next = me.next + 1 ]
            /\ UNCHANGED <<aux_vars, splitting, store, document_chunks, has_unique, vs_vars, calls,
                           lastAdd, lastSearch>>

\* db.commit() after the loop
CommitAdd ==
    \E w \in Writers :
        /\ sessions[w].pc = "running"
        /\ sessions[w].next > Len(sessions[w].chunks)
        /\ document_chunks' = commit_rows(document_chunks, sessions[w].writes)
        /\ sessions' =
              [ sessions EXCEPT
                  ![w].pc = "committed",
                  ![w].commit_no =
                      1 + Cardinality({ v \in Writers :
                                          sessions[v].pc = "committed" }) ]
        /\ UNCHANGED <<aux_vars, splitting, store, has_unique, vs_vars, calls, lastAdd, lastSearch>>

\* db_close that commits what the transaction wrote
db_close_committing(table, writes) == commit_rows(table, writes)

\* finally: db.close() on a session that was not committed: the table as
\* the others see it stays as it is
db_close(table, writes) == table

\* a statement raises: the exception leaves through db.close(), no commit
RaiseAdd ==
    \E w \in Writers :
        /\ sessions[w].pc = "running"
        /\ sessions[w].next <= Len(sessions[w].chunks)
        /\ document_chunks' = db_close(document_chunks, sessions[w].writes)
        /\ sessions' = [ sessions EXCEPT ![w].pc = "raised",
                                         ![w].writes = <<>> ]
        /\ UNCHANGED <<aux_vars, splitting, store, has_unique, vs_vars, calls,
                       lastAdd, lastSearch>>

\* the tables the calls start on: empty, or one row stored earlier
StoredTables ==
    {<<>>} \cup { <<new_row(c, "UPLOAD", u, 0)>> : c \in AllChunks, u \in Users }

InitConc ==
    /\ store = "postgres"
    /\ document_chunks \in StoredTables
    /\ has_unique = TRUE
    /\ points = <<>>
    /\ is_fitted = FALSE
    /\ vocabulary = {}
    /\ calls = 0
    /\ lastAdd = NoAdd
    /\ lastSearch = NoSearch
    /\ sessions = NoSessions
    /\ splitting = NoSplit
    /\ AuxIdle

NextConc == BeginAdd \/ ExecuteUpsert \/ CommitAdd \/ RaiseAdd

SpecConc == InitConc /\ [][NextConc]_vars

(***************************************************************************)
(* The splitting step of process_documents on texts given by their         *)
(* characters.                                                             *)
(***************************************************************************)
PageContents == {<<>>} \cup SeqsUpTo(Chars, MaxText)

\* chunks = self.text_splitter.split_documents([langchain_doc])
SplitDocuments ==
    /\ ~splitting.returned
    /\ splitting' = [ splitting EXCEPT
                        !.chunks = split_documents(splitting.page_content),
                        !.returned = TRUE ]
    /\ UNCHANGED <<aux_vars, pg_vars, vs_vars, calls, lastAdd, lastSearch>>

InitSplit ==
    /\ store = "postgres"
    /\ document_chunks = <<>>
    /\ has_unique = TRUE
    /\ points = <<>>
    /\ is_fitted = FALSE
    /\ vocabulary = {}
    /\ calls = 0
    /\ lastAdd = NoAdd
    /\ lastSearch = NoSearch
    /\ sessions = NoSessions
    /\ splitting \in { [NoSplit EXCEPT !.page_content = page_content] :
                        page_content \in PageContents }
    /\ AuxIdle

NextSplit == SplitDocuments

SpecSplit == InitSplit /\ [][NextSplit]_vars

(***************************************************************************)
(* VectorStore._split_text, one loop iteration a step.  Positions are      *)
(* Python's: character i of the text is text[i + 1] here.                  *)
(***************************************************************************)
\* chunk_size=1000, chunk_overlap=200 and the 100 characters searched for a
\* sentence ending in the source; the splitter is run here at sizes that
\* the texts of the model exceed
vs_chunk_size == 5
vs_chunk_overlap == 1
sentence_window == 2

\* longest text split
MaxVsText == 7

sentence_endings == << <<".">>, <<"!">>, <<"?">>, <<"\n", "\n">> >>

\* text.rfind(ending, search_start, search_end)
rfind(text, ending, search_start, search_end) ==
    LET found == { pos \in search_start..(search_end - Len(ending)) :
                     SubSeq(text, pos + 1, pos + Len(ending)) = ending }
    IN  IF found = {} THEN -1
        ELSE CHOOSE pos \in found : \A other \in found : other <= pos

\* the for loop over sentence_endings: the break of the first ending found
RECURSIVE last_break(_, _, _, _)
last_break(text, start, end, endings) ==
    IF endings = <<>> THEN end
    ELSE LET search_start == IF start + vs_chunk_size - sentence_window >= start
                             THEN start + vs_chunk_size - sentence_window
                             ELSE start
             search_end   == IF end <= Len(text) THEN end ELSE Len(text)
             pos == rfind(text, Head(endings), search_start, search_end)
         IN  IF pos > start /\ pos < end
             THEN pos + Len(Head(endings))
             ELSE last_break(text, start, end, Tail(endings))

\* end, as it stands when the chunk is cut
slice_end(text, start) ==
    IF start + vs_chunk_size < Len(text)
    THEN last_break(text, start, start + vs_chunk_size, sentence_endings)
    ELSE start + vs_chunk_size

\* text[start:end]
py_slice(text, start, end) ==
    SubSeq(text, start + 1, IF end <= Len(text) THEN end ELSE Len(text))

\* next_start with the overlap added
next_start_added(end) == end + vs_chunk_overlap

\* next_start with the chunk size taken for the overlap
next_start_by_size(end) == end - vs_chunk_size

\* start = end - chunk_overlap
next_start(end) == end - vs_chunk_overlap

\* texts of letters, full stops and spaces
VsTexts == {<<>>} \cup SeqsUpTo({"a", ".", " "}, MaxVsText)

\* lines 135-139: the text returned whole, or the loop entered
SplitTextCall ==
    /\ chunking.pc = "call"
    /\ chunking' =
          IF Len(chunking.text) <= vs_chunk_size
          THEN [ chunking EXCEPT
                   !.pc = "returned",
                   !.slices = <<[start |-> 0, end |-> Len(chunking.text)]>>,
                   !.chunks = <<chunking.text>> ]
          ELSE [ chunking EXCEPT !.pc = "loop", !.start = 0 ]
    /\ UNCHANGED <<base_vars, enhancing, chats, accounts, utc_day,
                       pdf_vars, notion_vars>>

\* lines 141-169: one iteration of the while loop
SplitTextIterate ==
    LET text  == chunking.text
        end   == slice_end(text, chunking.start)
        chunk == strip(py_slice(text, chunking.start, end))
        start == next_start(end)
    IN  /\ chunking.pc = "loop"
        /\ chunking' =
              [ chunking EXCEPT
                  !.pc = IF start >= Len(text) THEN "returned" ELSE "loop",
                  !.start = start,
                  !.slices = Append(@, [start |-> chunking.start, end |-> end]),
                  !.chunks = IF chunk # <<>> THEN Append(@, chunk) ELSE @ ]
        /\ UNCHANGED <<base_vars, enhancing, chats, accounts, utc_day,
                       pdf_vars, notion_vars>>

InitChunk ==
    /\ store = "qdrant"
    /\ document_chunks = <<>>
    /\ has_unique = TRUE
    /\ points = <<>>
    /\ is_fitted = FALSE
    /\ vocabulary = {}
    /\ calls = 0
    /\ lastAdd = NoAdd
    /\ lastSearch = NoSearch
    /\ sessions = NoSessions
    /\ splitting = NoSplit
    /\ chunking \in { [NoChunking EXCEPT !.pc = "call", !.text = text] :
                       text \in VsTexts }
    /\ enhancing = NoEnhancing
    /\ chats = NoChats
    /\ accounts = NewAccounts
    /\ utc_day = 0
    /\ LateIdle

NextChunk == SplitTextCall \/ SplitTextIterate

SpecChunk == InitChunk /\ [][NextChunk]_vars

\* a call that can take a step takes it
SpecChunkFair == SpecChunk /\ WF_vars(NextChunk)

(***************************************************************************)
(* VectorStore.add_documents, the metadata of one document (lines          *)
(* 228-249), which every chunk of the document then carries.  A string is  *)
(* the sequence of its characters, a key the dict lacks is None.           *)
(***************************************************************************)
\* Python's truth value of metadata.get(key)
truthy(value) == value # None /\ value # <<>>

\* page_id.replace('-', '')
without_dashes(page_id) == SelectSeq(page_id, LAMBDA c : c # "-")

\* page_id[:8]
first8(page_id) ==
    SubSeq(page_id, 1, IF Len(page_id) <= 8 THEN Len(page_id) ELSE 8)

\* f"https://notion.so/{page_id.replace('-', '')}"
notion_url(page_id) == <<"https://notion.so/">> \o without_dashes(page_id)

\* f"Notion: {title}" and f"Notion Page ({page_id[:8]}...)"
notion_source(metadata) ==
    IF truthy(metadata.title)
    THEN <<"Notion: ">> \o metadata.title
    ELSE <<"Notion Page (">> \o first8(metadata.page_id) \o <<"...)">>

\* lines 231-249
enhance_metadata(metadata, source_type, user_id) ==
    LET with_user == IF user_id # None
                     THEN [metadata EXCEPT !.user_id = user_id]
                     ELSE metadata
    IN  IF source_type = "notion" /\ truthy(with_user.page_id)
        THEN [ with_user EXCEPT
                 !.url = IF ~truthy(@) THEN notion_url(with_user.page_id) ELSE @,
                 !.source_type = "notion",
                 !.source = notion_source(with_user) ]
        ELSE with_user

PageIds == { None, <<>>, <<"a", "-", "b">>,
             <<"1", "2", "3", "4", "-", "5", "6", "7", "8", "9">> }
Urls == { None, <<>>, <<"u">> }
Titles == { None, <<>>, <<"T">> }
Sources == { None, <<"S">> }

Metadatas ==
    [ page_id : PageIds, url : Urls, title : Titles, source : Sources,
      source_type : {None}, user_id : {None} ]

EnhanceMetadata ==
    /\ enhancing.pc = "call"
    /\ enhancing' =
          [ enhancing EXCEPT
              !.pc = "done",
              !.metadata = enhance_metadata(enhancing.given,
                                            enhancing.source_type,
                                            enhancing.user_id) ]
    /\ UNCHANGED <<base_vars, chunking, chats, accounts, utc_day,
                       pdf_vars, notion_vars>>

InitEnhance ==
    /\ store = "qdrant"
    /\ document_chunks = <<>>
    /\ has_unique = TRUE
    /\ points = <<>>
    /\ is_fitted = FALSE
    /\ vocabulary = {}
    /\ calls = 0
    /\ lastAdd = NoAdd
    /\ lastSearch = NoSearch
    /\ sessions = NoSessions
    /\ splitting = NoSplit
    /\ chunking = NoChunking
    /\ enhancing \in
          [ pc : {"call"}, source_type : {"notion", "upload"},
            user_id : {None, "A"}, given : Metadatas, metadata : {None} ]
    /\ chats = NoChats
    /\ accounts = NewAccounts
    /\ utc_day = 0
    /\ LateIdle

NextEnhance == EnhanceMetadata

SpecEnhance == InitEnhance /\ [][NextEnhance]_vars

(***************************************************************************)
(* POST /chat (api/routes/chat.py) with AuthService's usage counters.  The *)
(* handler is a coroutine: requests interleave at its awaits, which are    *)
(* search_documents and generate_chat_response.  search_documents is       *)
(* VectorStore.search.                                                     *)
(***************************************************************************)
\* settings.DAILY_QUERY_LIMIT, 10 in core/config.py; the requests are
\* followed here under a limit they reach
DAILY_QUERY_LIMIT == 2

\* most chat requests of one user followed (users.total_queries)
MaxQueries == 5

\* top_k=5 of the search_documents call
chat_top_k == 5

\* search_filter with the filter left out for every request
search_filter_none(user) == None

\* search_filter = None; if user: search_filter = {"user_id": user.user_id}
search_filter(user) == IF user # None THEN user ELSE None

\* check_daily_usage_limit: the user row after the reset of a new day
after_reset(account) ==
    IF utc_day > account.last_query_reset
    THEN [ account EXCEPT !.daily_query_count = 0,
                          !.last_query_reset = utc_day ]
    ELSE account

\* usage["can_make_query"]
can_make_query(account) == account.daily_query_count < DAILY_QUERY_LIMIT

\* increment_usage(db, user_id, "chat", ...)
increment_usage(account) ==
    [ account EXCEPT !.daily_query_count = @ + 1, !.total_queries = @ + 1 ]

\* the chat requests of the user that were let through and not yet counted
in_flight(user) ==
    Cardinality({ c \in Connections :
                    /\ chats[c].user = user
                    /\ chats[c].pc \in {"searching", "generating"} })

\* lines 120-161: the usage check of an authenticated user, then the filter
\* of the search.  A user over the limit is refused: usage has no key
\* "limit_enabled", the KeyError becomes the 500 of the last except clause.
ChatCheck ==
    \E c \in Connections, user \in Users \cup {None} :
        /\ chats[c].pc = "idle"
        /\ user # None =>
              accounts[user].total_queries + in_flight(user) < MaxQueries
        /\ accounts' = IF user # None
                       THEN [accounts EXCEPT ![user] = after_reset(@)]
                       ELSE accounts
        /\ chats' =
              [ chats EXCEPT ![c] =
                  IF user # None /\ ~can_make_query(after_reset(accounts[user]))
                  THEN [ NoChat EXCEPT !.pc = "closed", !.user = user,
                                       !.status_code = 500 ]
                  ELSE [ NoChat EXCEPT !.pc = "searching", !.user = user,
                                       !.search_filter = search_filter(user) ] ]
        /\ UNCHANGED <<base_vars, chunking, enhancing, utc_day,
                       pdf_vars, notion_vars>>

\* line 167: relevant_docs = await search_documents(message, top_k=5,
\* filter); message: chat_request.message
ChatSearch ==
    \E c \in Connections, message \in QueryTexts, first_fails \in BOOLEAN,
       second_fails \in BOOLEAN :
        /\ chats[c].pc = "searching"
        /\ is_fitted' = TRUE
        /\ vocabulary' = fitted_vocabulary(<<message>>)
        /\ \E outcome \in vs_search_outcomes(points, message,
                                              chat_top_k,
                                              chats[c].search_filter,
                                              first_fails, second_fails) :
              chats' = [ chats EXCEPT
                           ![c].pc = "generating",
                           ![c].relevant_docs = outcome.results,
                           ![c].search_error = outcome.error ]
        /\ UNCHANGED <<pg_vars, points, calls, lastAdd, lastSearch, splitting,
                       chunking, enhancing, accounts, utc_day, pdf_vars,
                       notion_vars>>

\* lines 175-207: the answer is generated and saved, the usage of an
\* authenticated user incremented; llm_fails: generate_chat_response raises
ChatRespond ==
    \E c \in Connections, llm_fails \in BOOLEAN :
        /\ chats[c].pc = "generating"
        /\ chats' = [ chats EXCEPT
                        ![c] = [ NoChat EXCEPT
                                   !.pc = "closed", !.user = chats[c].user,
                                   !.status_code =
                                       IF llm_fails THEN 500 ELSE 200 ] ]
        /\ accounts' = IF ~llm_fails /\ chats[c].user # None
                       THEN [accounts EXCEPT ![chats[c].user] = increment_usage(@)]
                       ELSE accounts
        /\ UNCHANGED <<base_vars, chunking, enhancing, utc_day,
                       pdf_vars, notion_vars>>

\* the response is sent; the connection takes the next request
ChatClose ==
    \E c \in Connections :
        /\ chats[c].pc = "closed"
        /\ chats' = [chats EXCEPT ![c] = NoChat]
        /\ UNCHANGED <<base_vars, chunking, enhancing, accounts, utc_day,
                       pdf_vars, notion_vars>>

\* user rows that reached the limit on day 0
UsedAccounts ==
    [ u \in Users |->
        [ daily_query_count |-> DAILY_QUERY_LIMIT,
          total_queries |-> DAILY_QUERY_LIMIT, last_query_reset |-> 0 ] ]

\* the vocabulary of a collection fitted on the texts 1 and 2
ChatVocabulary == Terms(1) \cup Terms(2)

\* the point add_documents stored for a document of one chunk
stored_point(id, doc, user_id) ==
    [ id      |-> id,
      vector  |-> tfidf(doc.page_content[1], ChatVocabulary),
      payload |-> [ text        |-> doc.page_content[1],
                    metadata    |-> [ page_id   |-> doc.metadata.page_id,
                                      source_id |-> doc.metadata.source_id,
                                      user_id   |-> user_id ],
                    source_type |-> "UPLOAD",
                    chunk_id    |-> 0,
                    user_id     |-> user_id ] ]

\* the collections the requests search: up to two points of the tenants
ChatCollections ==
    LET d == CHOOSE doc \in Documents : doc.page_content = <<1>>
        e == CHOOSE doc \in Documents : doc.page_content = <<2>>
    IN  { <<>> }
        \cup { <<stored_point(1, d, u)>> : u \in Users }
        \cup { <<stored_point(1, d, u), stored_point(2, e, v)>> :
                 u \in Users, v \in Users }

InitChat ==
    /\ store = "qdrant"
    /\ document_chunks = <<>>
    /\ has_unique = TRUE
    /\ points \in ChatCollections
    /\ is_fitted = TRUE
    /\ vocabulary = ChatVocabulary
    /\ calls = 0
    /\ lastAdd = NoAdd
    /\ lastSearch = NoSearch
    /\ sessions = NoSessions
    /\ splitting = NoSplit
    /\ chunking = NoChunking
    /\ enhancing = NoEnhancing
    /\ chats = NoChats
    /\ accounts \in {NewAccounts, UsedAccounts}
    \* the requests of one UTC day: day 0, or the day after
    /\ utc_day \in {0, 1}
    /\ LateIdle

NextChat == ChatCheck \/ ChatSearch \/ ChatRespond \/ ChatClose

SpecChat == InitChat /\ [][NextChat]_vars

(***************************************************************************)
(* api/routes/pdf_upload.py: upload_pdf and process_pdf_background, with   *)
(* PDFProcessor.process_pdf and process_pdf_file of pdf_processor.py.      *)
(* A PDF is what process_pdf makes of it: "stored" (chunks extracted,      *)
(* result success True), "no_content" (no chunk extracted, success False)  *)
(* or "raised" (an exception inside process_pdf, which it catches and      *)
(* turns into success False).                                              *)
(***************************************************************************)
Pdfs == {"stored", "no_content", "raised"}

\* PDFProcessor.process_pdf: the dict it returns when it is run
process_pdf(pdf) ==
    IF pdf = "stored"
    THEN [kind |-> "dict", success |-> TRUE, error |-> None]
    ELSE [kind |-> "dict", success |-> FALSE, error |-> pdf]

\* process_pdf_file awaited: "return pdf_processor.process_pdf(...)" has no
\* await, so the value is the coroutine object of process_pdf, never run
process_pdf_file(pdf) ==
    [kind |-> "coroutine", success |-> FALSE, error |-> None]

\* the entry upload_pdf creates
initial_status_queued ==
    [status |-> "queued", result |-> NoResult, error |-> None]

initial_status ==
    [status |-> "processing", result |-> NoResult, error |-> None]

\* upload_pdf of a PDF that passes the checks: a fresh task id, its entry,
\* and the background task added
UploadPdf ==
    \E t \in Tasks, pdf \in Pdfs :
        /\ t \notin DOMAIN processing_status
        /\ processing_status' = (t :> initial_status) @@ processing_status
        /\ background' = [background EXCEPT ![t] = [pc |-> "queued", pdf |-> pdf]]
        /\ UNCHANGED <<base_vars, chunking, enhancing, chats, accounts,
                       utc_day, notion_vars>>

\* process_pdf_background up to its await
BackgroundStart ==
    \E t \in Tasks :
        /\ background[t].pc = "queued"
        /\ processing_status' =
              [processing_status EXCEPT ![t].status = "processing"]
        /\ background' = [background EXCEPT ![t].pc = "awaiting"]
        /\ UNCHANGED <<base_vars, chunking, enhancing, chats, accounts,
                       utc_day, notion_vars>>

\* the update after the await: result.get on a dict, AttributeError on
\* anything else, which "except Exception" turns into failed
status_update(entry, result) ==
    IF result.kind = "dict"
    THEN [ status |-> IF result.success THEN "completed" ELSE "failed",
           result |-> result, error |-> result.error ]
    ELSE [entry EXCEPT !.status = "failed", !.error = "AttributeError"]

\* process_pdf_background from its await to its end
BackgroundFinish ==
    \E t \in Tasks :
        /\ background[t].pc = "awaiting"
        /\ processing_status' =
              [processing_status EXCEPT
                 ![t] = status_update(@, process_pdf_file(background[t].pdf))]
        /\ background' = [background EXCEPT ![t].pc = "done"]
        /\ UNCHANGED <<base_vars, chunking, enhancing, chats, accounts,
                       utc_day, notion_vars>>

\* the stores as constructed, no call on them
StoresIdle ==
    /\ store = "qdrant"
    /\ document_chunks = <<>>
    /\ has_unique = TRUE
    /\ points = <<>>
    /\ is_fitted = FALSE
    /\ vocabulary = {}
    /\ calls = 0
    /\ lastAdd = NoAdd
    /\ lastSearch = NoSearch
    /\ sessions = NoSessions
    /\ splitting = NoSplit

InitPdf ==
    /\ StoresIdle
    /\ AuxIdle

NextPdf == UploadPdf \/ BackgroundStart \/ BackgroundFinish

SpecPdf == InitPdf /\ [][NextPdf]_vars

(***************************************************************************)
(* services/notion_service.py: NotionService.sync_page and                 *)
(* _process_page_recursive.  The workspace gives each page its child       *)
(* blocks: child_page blocks naming a page, and child_database blocks,     *)
(* whose databases.query returns the pages of database_rows.  The          *)
(* recursion is followed on an explicit stack, one frame per               *)
(* _process_page_recursive call that got past the synced_pages test.       *)
(***************************************************************************)
MaxBlocks == 2
recursion_limit == 4    \* CPython: sys.getrecursionlimit() is 1000

\* response["results"] of databases.query
database_rows == <<"p1", "p2">>

Blocks ==
    [type : {"child_page"}, id : Pages] \cup
        {[type |-> "child_database", id |-> "db"]}

Workspaces == [Pages -> SeqsUpTo(Blocks, MaxBlocks)]

\* "if page_id in self.synced_pages"
already_synced_never(synced_pages, page_id) == FALSE

already_synced(synced_pages, page_id) == page_id \in synced_pages

\* _process_page_recursive(page) called in state s: it returns [] at once
\* for a page already synced; otherwise it marks the page, makes the
\* page's documents and starts on the blocks _get_page_blocks returned
\* ([] when the API call failed)
process_page_recursive(s, page_id, blocks) ==
    IF already_synced(s.synced_pages, page_id)
    THEN s
    ELSE [s EXCEPT !.synced_pages = @ \cup {page_id},
                   !.processed = Append(@, page_id),
                   !.stack = Append(@, [ page_id |-> page_id,
                                         blocks |-> blocks,
                                         rows |-> <<>>,
                                         documents |-> <<page_id>> ])]

\* the top frame with field values replaced
with_top(s, frame) == [s EXCEPT !.stack[Len(s.stack)] = frame]

Top == syncing.stack[Len(syncing.stack)]

\* sync_page(page_id): pages.retrieve, the reset of synced_pages, and the
\* call of _process_page_recursive on the page
SyncPage ==
    \E page_id \in Pages, retrieve_fails, blocks_fail \in BOOLEAN :
        /\ syncing.pc \in {"idle", "returned", "raised"}
        /\ syncing' =
              IF retrieve_fails
              THEN [syncing EXCEPT !.pc = "raised", !.page_id = page_id,
                                   !.processed = <<>>, !.documents = <<>>]
              ELSE process_page_recursive(
                       [NoSync EXCEPT !.pc = "running", !.page_id = page_id],
                       page_id,
                       IF blocks_fail THEN <<>> ELSE workspace[page_id])
        /\ UNCHANGED <<base_vars, chunking, enhancing, chats, accounts,
                       utc_day, pdf_vars, workspace>>

\* the next row of the database block in hand: _process_page_recursive on
\* it; a RecursionError leaves the loop over the rows for the handler of
\* the block
ProcessRow ==
    \E blocks_fail \in BOOLEAN :
        /\ syncing.pc = "running"
        /\ Top.rows # <<>>
        /\ LET row == Head(Top.rows)
           IN syncing' =
                 IF Len(syncing.stack) >= recursion_limit
                 THEN with_top(syncing, [Top EXCEPT !.rows = <<>>])
                 ELSE process_page_recursive(
                          with_top(syncing, [Top EXCEPT !.rows = Tail(@)]),
                          row,
                          IF blocks_fail THEN <<>> ELSE workspace[row])
        /\ UNCHANGED <<base_vars, chunking, enhancing, chats, accounts,
                       utc_day, pdf_vars, workspace>>

\* the next block of the page in hand: a child_page is retrieved and
\* processed, a child_database is queried; an exception of the API call
\* or of the recursion is caught by the handler of the block
ProcessBlock ==
    \E api_fails, blocks_fail \in BOOLEAN :
        /\ syncing.pc = "running"
        /\ Top.rows = <<>>
        /\ Top.blocks # <<>>
        /\ LET block == Head(Top.blocks)
               rest == with_top(syncing, [Top EXCEPT !.blocks = Tail(@)])
           IN syncing' =
                 IF api_fails
                 THEN rest
                 ELSE IF block.type = "child_database"
                 THEN with_top(syncing, [Top EXCEPT !.blocks = Tail(@),
                                                    !.rows = database_rows])
                 ELSE IF Len(syncing.stack) >= recursion_limit
                 THEN rest
                 ELSE process_page_recursive(
                          rest, block.id,
                          IF blocks_fail THEN <<>> ELSE workspace[block.id])
        /\ UNCHANGED <<base_vars, chunking, enhancing, chats, accounts,
                       utc_day, pdf_vars, workspace>>

\* "return documents": the caller extends its documents, and sync_page
\* returns those of the first call
ReturnPage ==
    /\ syncing.pc = "running"
    /\ Top.rows = <<>>
    /\ Top.blocks = <<>>
    /\ LET n == Len(syncing.stack)
       IN syncing' =
             IF n = 1
             THEN [syncing EXCEPT !.pc = "returned", !.stack = <<>>,
                                  !.documents = Top.documents]
             ELSE [syncing EXCEPT
                     !.stack = [SubSeq(@, 1, n - 1) EXCEPT
                                  ![n - 1].documents = @ \o Top.documents]]
    /\ UNCHANGED <<base_vars, chunking, enhancing, chats, accounts,
                   utc_day, pdf_vars, workspace>>

InitSync ==
    /\ StoresIdle
    /\ chunking = NoChunking
    /\ enhancing = NoEnhancing
    /\ chats = NoChats
    /\ accounts = NewAccounts
    /\ utc_day = 0
    /\ processing_status = NoStatus
    /\ background = NoTasks
    /\ workspace \in Workspaces
    /\ syncing = NoSync

NextSync == SyncPage \/ ProcessRow \/ ProcessBlock \/ ReturnPage

SpecSync == InitSync /\ [][NextSync]_vars

\* the event loop runs a sync_page call that can go on
SpecSyncFair ==
    SpecSync /\ WF_vars(ProcessRow \/ ProcessBlock \/ ReturnPage)

(***************************************************************************)
(* Properties                                                              *)
(***************************************************************************)
Rows == 1..Len(document_chunks)

\* the last call was PostgresVectorStore.search and has returned
Searched == lastSearch.status = "returned" /\ lastSearch.store = "postgres"

Results == lastSearch.results

\* the similarity score of row i for the query of the last search
ScoreOf(i) ==
    similarity_score(distance(document_chunks, i, lastSearch.query_embedding))

\* x >= y on floats, False when either is NaN
FloatGe(x, y) == ~x.nan /\ ~y.nan /\ x.v >= y.v

\* the stored user_id of the row or point a result comes from
Owner(of_store, id) ==
    IF of_store = "postgres" THEN document_chunks[id].user_id
    ELSE points[id].payload.user_id

\* C1: a search called with a user_id filter (PostgresVectorStore.search, or
\* VectorStore.search on its filter path or its retry-without-filter path)
\* returns only chunks whose stored user_id is that user: no chunk of another
\* tenant is ever returned.
C1_TenantIsolation ==
    (lastSearch.status = "returned" /\ lastSearch.filter # None) =>
        \A k \in 1..Len(Results) :
            Owner(lastSearch.store, Results[k].id) = lastSearch.filter

\* C1 witness: the retry-without-filter path of VectorStore.search returned
\* a point of the filter's tenant while the collection also holds a point of
\* the other tenant
C1_Witness ==
    /\ lastSearch.status = "returned" /\ lastSearch.store = "qdrant"
    /\ ~lastSearch.error /\ lastSearch.path = "retry"
    /\ lastSearch.filter # None /\ Results # <<>>
    /\ \E i \in 1..Len(points) : points[i].payload.user_id # lastSearch.filter

\* C2: once a row is stored with a user_id, no later add_documents call
\* changes that row's user_id.
C2_OwnerNeverChanges ==
    [][\A i \in Rows :
          i <= Len(document_chunks') =>
              document_chunks'[i].user_id = document_chunks[i].user_id]_vars

\* the table the same PostgresVectorStore.add_documents call leaves when it
\* is made once more
TableAgain(call) ==
    insert_all(document_chunks,
               process_documents(call.documents, call.user_id, {}, calls + 1),
               call.source_type, call.user_id, calls + 1, has_unique).table

\* the collections the same VectorStore.add_documents call can leave when it
\* is made once more
PointsAgain(call) ==
    { client_upsert(points, point_structs(call.chunks, embeddings,
                                          call.source_type, call.user_id)) :
        embeddings \in get_embeddings(Texts(call.chunks)) }

ChunkIds(table) == { table[i].chunk_id : i \in 1..Len(table) }

\* C3: after an add_documents call has returned, the same call made once
\* more leaves the store with the same number of chunks, the same chunk_ids
\* and the same stored text for each of them.
C3_Reingestion ==
    lastAdd.status = "returned" =>
        IF lastAdd.call.store = "postgres"
        THEN LET again == TableAgain(lastAdd.call)
             IN  /\ Len(again) = Len(document_chunks)
                 /\ ChunkIds(again) = ChunkIds(document_chunks)
                 /\ \A i \in Rows : again[i].text = document_chunks[i].text
        ELSE \A again \in PointsAgain(lastAdd.call) :
                 /\ Len(again) = Len(points)
                 /\ \A i \in 1..Len(points) :
                       again[i].payload.text = points[i].payload.text

source_of(chunk) == new_row(chunk, "UPLOAD", None, 0).source_id

\* C5: the chunk_id add_documents assigns is derived from the document's
\* source identifier and the chunk's position, so within a call the chunks of
\* documents with different source identifiers get different chunk_ids (none
\* overwrites a chunk of another document).
C5_ChunkIdFromSource ==
    (lastAdd.status = "returned" /\ lastAdd.call.store = "postgres") =>
        \A k, l \in 1..Len(lastAdd.call.chunks) :
            source_of(lastAdd.call.chunks[k]) # source_of(lastAdd.call.chunks[l])
                => row_chunk_id(lastAdd.call.chunks[k])
                       # row_chunk_id(lastAdd.call.chunks[l])

\* the chunks of a call whose chunk_id is that of row i, by position
Hits(chunks, i) ==
    { k \in 1..Len(chunks) :
        row_chunk_id(chunks[k]) = document_chunks[i].chunk_id }

Max(S) == CHOOSE x \in S : \A y \in S : y <= x

\* the values a call writes for the chunk_id of row i: those of the last of
\* its chunks with that chunk_id
Written(call, i) ==
    new_row(call.chunks[Max(Hits(call.chunks, i))], call.source_type,
            call.user_id, calls + 1)

\* the step is a PostgresVectorStore.add_documents call that returns, on a
\* table with UNIQUE (chunk_id)
UpsertReturns ==
    /\ lastAdd.status = "none" /\ lastAdd'.status = "returned"
    /\ lastAdd'.call.store = "postgres" /\ has_unique

\* C6 as stated: when add_documents upserts a chunk whose chunk_id already
\* exists, the stored row afterwards holds the new chunk's value in every
\* field, the timestamps included.
C6_FullReplace ==
    [][UpsertReturns =>
          \A i \in Rows :
              Hits(lastAdd'.call.chunks, i) # {} =>
                  document_chunks'[i] = Written(lastAdd'.call, i)]_vars

\* C6 as amended: the row afterwards holds the new chunk's value in every
\* column of the DO UPDATE SET list; created_at (and the id) keep the values
\* of the existing row.
C6_ReplaceKeepsCreatedAt ==
    [][UpsertReturns =>
          \A i \in Rows :
              Hits(lastAdd'.call.chunks, i) # {} =>
                  document_chunks'[i] =
                      [ Written(lastAdd'.call, i) EXCEPT
                          !.created_at = document_chunks[i].created_at ]]_vars

\* C6 witness: an add_documents call has returned after it replaced, by the
\* upsert, a row that an earlier call had written
C6_Witness ==
    /\ lastAdd.status = "returned" /\ lastAdd.call.store = "postgres"
    /\ has_unique
    /\ \E i \in Rows :
          /\ Hits(lastAdd.call.chunks, i) # {}
          /\ document_chunks[i].created_at < document_chunks[i].updated_at
          /\ document_chunks[i].updated_at = calls

\* the rows the WHERE clause of the last search admits
Cand == candidates(document_chunks, lastSearch.filter)

\* C7: when the search finds at least one candidate and every candidate
\* scores below the threshold, it returns exactly one result, a candidate
\* with the highest score.
C7_Fallback ==
    ( /\ Searched /\ ~lastSearch.error
      /\ Cand # {}
      /\ \A c \in Cand : FloatLt(ScoreOf(c), Float(relevance_threshold)) ) =>
        /\ Len(Results) = 1
        /\ Results[1].id \in Cand
        /\ Results[1].score = ScoreOf(Results[1].id)
        /\ \A c \in Cand : FloatGe(Results[1].score, ScoreOf(c))

\* C7 witness: two candidates with different scores, both below the
\* threshold, and the search returned
C7_Witness ==
    /\ Searched /\ ~lastSearch.error
    /\ \A c \in Cand : FloatLt(ScoreOf(c), Float(relevance_threshold))
    /\ \E c, d \in Cand : FloatLt(ScoreOf(c), ScoreOf(d))
    /\ Len(Results) = 1

\* C8: a list of two or more results holds only scores of at least the
\* threshold (a single result may be the fallback).
C8_ThresholdHeld ==
    (Searched /\ Len(Results) >= 2) =>
        \A k \in 1..Len(Results) :
            FloatGe(Results[k].score, Float(relevance_threshold))

\* C9: the results are at most top_k, in descending score order, and results
\* of equal score come most recently updated first.
C9_Ranking ==
    (Searched /\ ~lastSearch.error) =>
        /\ Len(Results) <= lastSearch.top_k
        /\ \A a, b \in 1..Len(Results) :
              (a < b /\ ~Results[a].score.nan /\ ~Results[b].score.nan) =>
                  \/ Results[a].score.v > Results[b].score.v
                  \/ /\ Results[a].score.v = Results[b].score.v
                     /\ document_chunks[Results[a].id].updated_at
                           >= document_chunks[Results[b].id].updated_at

\* C10: the search of a tenant without rows returns the empty list, and the
\* result is empty only when the tenant has no candidate row.
C10_EmptyOnlyIfNoRows ==
    (Searched /\ lastSearch.filter # None) =>
        (Results = <<>>) = (Cand = {})

\* the rows of the filter's tenant (of every tenant without a filter) that
\* hold a vector
WithVector ==
    { i \in Rows :
        /\ document_chunks[i].embedding_vector # None
        /\ lastSearch.filter # None =>
               document_chunks[i].user_id = lastSearch.filter }

\* C11: a row whose embedding_vector is NULL is never returned by search and
\* never takes one of the top_k slots: the query fetches top_k rows, or all
\* the rows with a vector when they are fewer, with or without a user filter.
C11_NullNeverCandidate ==
    (Searched /\ ~lastSearch.error) =>
        /\ \A k \in 1..Len(Results) : Results[k].id \in WithVector
        /\ lastSearch.row_count = Min(lastSearch.top_k, Cardinality(WithVector))

\* C11 witness: the tenant searched has a row without a vector and a row
\* with one, top_k has room for both, and the one with a vector is returned
C11_Witness ==
    /\ Searched /\ ~lastSearch.error
    /\ lastSearch.top_k >= 2 /\ Len(Results) = 1
    /\ \E i \in Rows \ WithVector :
          lastSearch.filter # None =>
              document_chunks[i].user_id = lastSearch.filter
    /\ Results[1].id \in WithVector

\* C12: when the store read inside search fails, what search hands to its
\* caller differs from the empty list of a search that found nothing.
C12_ReadFailureSignalled ==
    (lastSearch.status = "returned" /\ lastSearch.error) =>
        lastSearch.results # <<>>

\* C13: when embedding the query fails, search fails: it does not go on to
\* rank the rows against a substitute query vector.
C13_EmbedFailurePropagates ==
    ( /\ Searched
      /\ lastSearch.error \/ lastSearch.query_embedding = ZeroVector ) =>
        lastSearch.error

\* C14: every stored chunk carries the vector the embedding model gives for
\* its text; none is stored with a zero or random substitute.
C14_NoSubstituteVector ==
    /\ \A i \in Rows :
          document_chunks[i].embedding = embed_query(document_chunks[i].text)
    /\ \A i \in 1..Len(points) :
          points[i].vector = tfidf(points[i].payload.text, vocabulary)

\* the rows the last add_documents call wrote
WrittenRows ==
    { i \in Rows :
        /\ document_chunks[i].updated_at = calls
        /\ \E k \in 1..Len(lastAdd.call.chunks) :
              row_chunk_id(lastAdd.call.chunks[k]) = document_chunks[i].chunk_id }

\* C15: when the write of one document of a batch fails, the failure is
\* caught and the other documents of the batch are still stored: after a
\* call with two or more documents the table holds rows of that call.
C15_SiblingsStillStored ==
    ( /\ lastAdd.status # "none" /\ lastAdd.call.store = "postgres"
      /\ Len(lastAdd.call.documents) >= 2 ) =>
        /\ lastAdd.status = "returned"
        /\ WrittenRows # {}

\* C19: embedding is deterministic: two stored points with the same text
\* carry the same vector.
C19_SameTextSameVector ==
    \A i, j \in 1..Len(points) :
        points[i].payload.text = points[j].payload.text =>
            points[i].vector = points[j].vector

\* the number of chunks the splitter cuts the documents into
RECURSIVE NumSegments(_)
NumSegments(documents) ==
    IF documents = <<>> THEN 0
    ELSE Len(Head(documents).page_content) + NumSegments(Tail(documents))

\* C16: the caller of add_documents receives an outcome for every chunk the
\* splitter produced: the call raises (the whole batch failed), or it returns
\* one entry for each chunk, naming a row of the table with its chunk_id.
C16_EveryChunkReported ==
    (lastAdd.status # "none" /\ lastAdd.call.store = "postgres") =>
        \/ lastAdd.status = "raised"
        \/ /\ lastAdd.status = "returned"
           /\ Len(lastAdd.result) = NumSegments(lastAdd.call.documents)
           /\ \A k \in 1..Len(lastAdd.result) :
                 /\ lastAdd.result[k].id \in Rows
                 /\ document_chunks[lastAdd.result[k].id].chunk_id
                       = lastAdd.result[k].chunk_id

\* C16 witness: a call with several chunks has returned although the
\* embedding call raised on one of them
C16_Witness ==
    /\ lastAdd.status = "returned" /\ lastAdd.call.store = "postgres"
    /\ Len(lastAdd.result) >= 2
    /\ \E i \in Rows :
          /\ document_chunks[i].embedding = ZeroVector
          /\ document_chunks[i].updated_at = calls

\* the step is a PostgresVectorStore.add_documents call, returning or raising
AddStep ==
    /\ lastAdd.status = "none" /\ lastAdd'.status # "none"
    /\ lastAdd'.call.store = "postgres"

\* the complete row of chunk k of the call of the step, at position i
WholeRow(k, i) ==
    LET row == new_row(lastAdd'.call.chunks[k], lastAdd'.call.source_type,
                       lastAdd'.call.user_id, calls')
    IN  IF i <= Len(document_chunks)
        THEN [row EXCEPT !.created_at = document_chunks[i].created_at]
        ELSE row

\* C17: when add_documents fails partway, and when it returns, every row of
\* the table is exactly as before the call or holds one chunk of the call
\* whole; a call that raised leaves every row as it was.
C17_RowsWholeOrUntouched ==
    [][AddStep =>
          /\ Len(document_chunks') >= Len(document_chunks)
          /\ \A i \in 1..Len(document_chunks') :
                \/ i <= Len(document_chunks)
                     /\ document_chunks'[i] = document_chunks[i]
                \/ \E k \in 1..Len(lastAdd'.call.chunks) :
                      document_chunks'[i] = WholeRow(k, i)
          /\ lastAdd'.status = "raised" =>
                document_chunks' = document_chunks]_vars

\* C17 witness: a call has raised whose chunks hit a row that an earlier
\* call had stored
C17_Witness ==
    /\ lastAdd.status = "raised" /\ lastAdd.call.store = "postgres"
    /\ \E i \in Rows : Hits(lastAdd.call.chunks, i) # {}

\* the chunk_ids of the documents of the model
AllChunkIds == { row_chunk_id(c) : c \in AllChunks }

\* the calls that upserted the chunk_id and committed
Committers(chunk_id) ==
    { w \in Writers :
        /\ sessions[w].pc = "committed"
        /\ \E k \in 1..Len(sessions[w].writes) :
              sessions[w].writes[k].chunk_id = chunk_id }

FirstCommitter(chunk_id) ==
    CHOOSE w \in Committers(chunk_id) :
        \A v \in Committers(chunk_id) :
            sessions[w].commit_no <= sessions[v].commit_no

LastCommitter(chunk_id) ==
    CHOOSE w \in Committers(chunk_id) :
        \A v \in Committers(chunk_id) :
            sessions[w].commit_no >= sessions[v].commit_no

\* the VALUES (...) of the last statement of call w for the chunk_id
ValuesOf(w, chunk_id) ==
    LET ks == { k \in 1..Len(sessions[w].chunks) :
                  row_chunk_id(sessions[w].chunks[k]) = chunk_id }
    IN  new_row(sessions[w].chunks[Max(ks)], sessions[w].source_type,
                sessions[w].user_id, sessions[w].now)

\* the created_at of the row call w left for the chunk_id
CreatedAtOf(w, chunk_id) ==
    LET k == CHOOSE j \in 1..Len(sessions[w].writes) :
                 sessions[w].writes[j].chunk_id = chunk_id
    IN  sessions[w].writes[k].created_at

RowsOf(chunk_id) == { i \in Rows : document_chunks[i].chunk_id = chunk_id }

\* C18 as stated: when two add_documents calls upsert the same chunk_id at
\* the same time and both commit, there is exactly one row of that chunk_id
\* and all its fields are the values of one of the two calls.
C18_RowOfOneWriter ==
    \A chunk_id \in AllChunkIds :
        Cardinality(Committers(chunk_id)) >= 2 =>
            /\ Cardinality(RowsOf(chunk_id)) = 1
            /\ \A i \in RowsOf(chunk_id) :
                  \E w \in Committers(chunk_id) :
                      document_chunks[i] = ValuesOf(w, chunk_id)

\* C18 amended: ... there is exactly one row of that chunk_id; every column
\* of the DO UPDATE SET list holds the value of the call that committed
\* last, and created_at is the one the first call to commit left.
C18_LastCommitWins ==
    \A chunk_id \in AllChunkIds :
        Cardinality(Committers(chunk_id)) >= 2 =>
            /\ Cardinality(RowsOf(chunk_id)) = 1
            /\ \A i \in RowsOf(chunk_id) :
                  document_chunks[i] =
                      [ ValuesOf(LastCommitter(chunk_id), chunk_id) EXCEPT
                          !.created_at =
                              CreatedAtOf(FirstCommitter(chunk_id), chunk_id) ]

\* C18 witness: two calls of different users with different texts have
\* upserted the same chunk_id and both committed, and the call that
\* committed last had begun before the other one
C18_Witness ==
    \E chunk_id \in AllChunkIds :
        /\ Committers(chunk_id) = Writers
        /\ sessions[LastCommitter(chunk_id)].now
              < sessions[FirstCommitter(chunk_id)].now
        /\ sessions["w1"].user_id # sessions["w2"].user_id
        /\ ValuesOf("w1", chunk_id).text # ValuesOf("w2", chunk_id).text

\* C20 as stated: every chunk of the splitter has at most chunk_size
\* characters, and a document longer than chunk_size yields more than one
\* chunk.
C20_LongDocumentSplits ==
    splitting.returned =>
    /\ \A k \in 1..Len(splitting.chunks) :
          Len(splitting.chunks[k]) <= chunk_size
    /\ Len(splitting.page_content) > chunk_size => Len(splitting.chunks) > 1

\* C20 amended: every chunk has at most chunk_size characters, and a
\* document that is longer than chunk_size once the whitespace at its ends
\* is removed yields more than one chunk.
C20_LongStrippedDocumentSplits ==
    splitting.returned =>
    /\ \A k \in 1..Len(splitting.chunks) :
          Len(splitting.chunks[k]) <= chunk_size
    /\ Len(strip(splitting.page_content)) > chunk_size =>
          Len(splitting.chunks) > 1

\* C20 witness: a document that begins with whitespace and is longer than
\* chunk_size without it has been cut into several chunks
C20_Witness ==
    /\ splitting.returned
    /\ splitting.page_content # <<>>
    /\ Head(splitting.page_content) \in Whitespace
    /\ Len(strip(splitting.page_content)) > chunk_size
    /\ Len(splitting.chunks) > 1

\* the characters of slice k that its chunk holds: all of them when the text
\* was returned whole, those between the stripped ends otherwise
RECURSIVE LeadingSpace(_)
LeadingSpace(text) ==
    IF text = <<>> \/ Head(text) \notin Whitespace THEN 0
    ELSE 1 + LeadingSpace(Tail(text))

HeldBy(k) ==
    LET sl  == chunking.slices[k]
        raw == py_slice(chunking.text, sl.start, sl.end)
    IN  IF Len(chunking.text) <= vs_chunk_size THEN (sl.start + 1)..sl.end
        ELSE (sl.start + LeadingSpace(raw) + 1)
                 ..(sl.start + LeadingSpace(raw) + Len(strip(raw)))

Recovered ==
    { p \in 1..Len(chunking.text) :
        \E k \in 1..Len(chunking.slices) : p \in HeldBy(k) }

\* each slice begins no later than the one before it ended, from 0 to the end
NoGap ==
    /\ chunking.slices # <<>>
    /\ chunking.slices[1].start = 0
    /\ chunking.slices[Len(chunking.slices)].end >= Len(chunking.text)
    /\ \A k \in 1..(Len(chunking.slices) - 1) :
          chunking.slices[k + 1].start <= chunking.slices[k].end

\* C21 as stated: the segments _split_text returns recover at least 95% of
\* the characters of the text, and consecutive segments leave no gap.
C21_Recovers95Percent ==
    chunking.pc = "returned" =>
        /\ 100 * Cardinality(Recovered) >= 95 * Len(chunking.text)
        /\ NoGap

\* C21 amended: the segments _split_text returns hold every character of
\* the text that is not whitespace, each in a chunk that is a run of
\* characters of the text around it, and consecutive slices leave no gap.
C21_RecoversNonWhitespace ==
    chunking.pc = "returned" =>
        /\ \A p \in 1..Len(chunking.text) :
              chunking.text[p] \notin Whitespace =>
                  \E k \in 1..Len(chunking.slices) :
                      /\ chunking.slices[k].start < p
                      /\ p <= chunking.slices[k].end
                      /\ p \in HeldBy(k)
                      /\ \E j \in 1..Len(chunking.chunks) :
                            chunking.chunks[j] =
                                [ i \in 1..Cardinality(HeldBy(k)) |->
                                    chunking.text[chunking.slices[k].start
                                                  + (IF Len(chunking.text) <= vs_chunk_size
                                                     THEN 0
                                                     ELSE LeadingSpace(
                                                            py_slice(chunking.text,
                                                                     chunking.slices[k].start,
                                                                     chunking.slices[k].end)))
                                                  + i] ]
        /\ NoGap

\* C21 witness: a text longer than the chunk size has been cut in several
\* chunks and lost whitespace between them
C21_Witness ==
    /\ chunking.pc = "returned"
    /\ Len(chunking.chunks) >= 2
    /\ Cardinality(Recovered) < Len(chunking.text)
    /\ \E p \in 1..Len(chunking.text) : chunking.text[p] \notin Whitespace

\* C22: _split_text terminates on every text: each iteration of its loop
\* moves start forward, it cuts no more slices than the text has
\* characters, and every call returns.
C22_Terminates ==
    /\ [][chunking.pc = "loop" =>
             /\ chunking'.start > chunking.start
             /\ Len(chunking'.slices) <= Len(chunking.text)]_vars
    /\ <>(chunking.pc = "returned")

\* C22 witness: a call has returned after several iterations of the loop,
\* the first of which cut its slice at a sentence ending
C22_Witness ==
    /\ chunking.pc = "returned"
    /\ Len(chunking.slices) >= 2
    /\ chunking.slices[1].end < vs_chunk_size

\* C23: no segment _split_text returns is empty or whitespace only, a text
\* returned whole included.
C23_NoBlankSegment ==
    chunking.pc = "returned" =>
        \A j \in 1..Len(chunking.chunks) : strip(chunking.chunks[j]) # <<>>

\* C24: for a notion document with a page_id, a url and a source the
\* metadata came with are left as they were; they are derived only when
\* missing.
C24_PresentValuesKept ==
    ( /\ enhancing.pc = "done"
      /\ enhancing.source_type = "notion"
      /\ truthy(enhancing.given.page_id) ) =>
        /\ enhancing.metadata.url =
              IF truthy(enhancing.given.url) THEN enhancing.given.url
              ELSE notion_url(enhancing.given.page_id)
        /\ enhancing.metadata.source =
              IF truthy(enhancing.given.source) THEN enhancing.given.source
              ELSE notion_source(enhancing.given)

\* C25: when an insert raises inside add_documents the call ends without a
\* commit: the table is as it was before the call, and no row of it ever
\* stems from the call, the chunks inserted before the failing one
\* included.
C25_RaisedCallLeavesNothing ==
    \A w \in Writers :
        sessions[w].pc = "raised" =>
            \A i \in Rows :
                /\ document_chunks[i].updated_at # sessions[w].now
                /\ document_chunks[i].created_at # sessions[w].now

\* C25 witness: a call has raised after the insert of its first chunk, on a
\* table that holds rows
C25_Witness ==
    /\ Rows # {}
    /\ \E w \in Writers : sessions[w].pc = "raised" /\ sessions[w].next >= 2

\* the points whose stored user_id is the user
PointsOf(user) ==
    { i \in 1..Len(points) : points[i].payload.user_id = user }

DocIds(c) ==
    { chats[c].relevant_docs[k].id : k \in 1..Len(chats[c].relevant_docs) }

\* C26: a chat request without an authenticated user searches with no user
\* filter and gets the points of every tenant; a request of an
\* authenticated user searches with that user's filter and gets only that
\* user's points (the collections hold fewer points than top_k).
C26_AnonymousSearchesAllTenants ==
    \A c \in Connections :
        (chats[c].pc = "generating" /\ ~chats[c].search_error) =>
            IF chats[c].user = None
            THEN /\ chats[c].search_filter = None
                 /\ DocIds(c) = 1..Len(points)
            ELSE /\ chats[c].search_filter = chats[c].user
                 /\ DocIds(c) = PointsOf(chats[c].user)

\* C26 witness: an anonymous request has got points of two tenants while a
\* request of a user has got only that user's point of the same collection
C26_Witness ==
    \E c, d \in Connections :
        /\ chats[c].pc = "generating" /\ chats[c].user = None
        /\ \E i, j \in DocIds(c) :
              points[i].payload.user_id # points[j].payload.user_id
        /\ chats[d].pc = "generating" /\ chats[d].user # None
        /\ Cardinality(DocIds(d)) = 1

\* C29: a user's daily_query_count never exceeds the daily limit, also with
\* several chat requests of the user in flight.
C29_CountWithinLimit ==
    \A u \in Users : accounts[u].daily_query_count <= DAILY_QUERY_LIMIT

\* the tasks upload_pdf has created
Created == DOMAIN processing_status

Terminal == {"completed", "failed"}

\* C27: the status of a task is always processing, completed or failed; the
\* entry is created as processing, and a completed or failed status never
\* changes again.
C27_StatusLifecycle ==
    /\ [](\A t \in Created :
            processing_status[t].status \in {"processing"} \cup Terminal)
    /\ [][\A t \in Tasks :
            /\ (t \notin Created /\ t \in DOMAIN processing_status')
                   => processing_status'[t].status = "processing"
            /\ (t \in Created /\ processing_status[t].status \in Terminal)
                   => processing_status'[t] = processing_status[t]]_vars

\* C27 witness: a task has ended as failed while a later upload is still
\* processing and a third has not started
C27_Witness ==
    \E t, u, v \in Tasks :
        /\ background[t].pc = "done"
        /\ processing_status[t].status = "failed"
        /\ background[u].pc = "awaiting"
        /\ processing_status[u].status = "processing"
        /\ background[v].pc = "queued"

\* C28: a finished task is completed exactly when PDFProcessor.process_pdf
\* makes a result with success true of its PDF, and failed otherwise.
C28_CompletedIffSuccess ==
    \A t \in Tasks :
        background[t].pc = "done" =>
            /\ processing_status[t].status \in Terminal
            /\ processing_status[t].status = "completed"
                  <=> process_pdf(background[t].pdf).success

\* no element occurs twice in the sequence
NoDuplicates(seq) ==
    \A i, j \in 1..Len(seq) : seq[i] = seq[j] => i = j

\* C30: within one sync_page call no page id is processed twice and no
\* page's documents are collected twice, whatever the pages and databases
\* reference, and the call returns.
C30_EachPageOnceAndReturns ==
    /\ [](/\ NoDuplicates(syncing.processed)
          /\ NoDuplicates(syncing.documents)
          /\ \A k \in 1..Len(syncing.stack) :
                NoDuplicates(syncing.stack[k].documents)
          /\ Len(syncing.stack) <= Cardinality(Pages))
    /\ (syncing.pc = "running") ~> (syncing.pc = "returned")

\* C30 witness: p1 and p2 are sub-pages of each other, p2 also holds a
\* database of both pages, and the sync of p1 has returned one document of
\* each page
C30_Witness ==
    /\ syncing.pc = "returned"
    /\ syncing.page_id = "p1"
    /\ syncing.documents = <<"p1", "p2">>
    /\ workspace["p1"] = <<[type |-> "child_page", id |-> "p2"],
                           [type |-> "child_page", id |-> "p2"]>>
    /\ workspace["p2"] = <<[type |-> "child_page", id |-> "p1"],
                           [type |-> "child_database", id |-> "db"]>>
====
